---- MODULE Spec2Model ----
(***************************************************************************)
(* Model of the window-walking synchronisation functions of                *)
(* Source/poloniex_bot.py:                                                 *)
(*   get_trade_history_between_dates   (fn = "thbd")                       *)
(*   get_complete_trade_history        (fn = "cth")                        *)
(*   get_chart_data_between_dates      (fn = "cdbd")                       *)
(*                                                                         *)
(* Time is an integer count of ticks; one tick stands for one microsecond, *)
(* the resolution of datetime.  A day is Day ticks.  The two bounds of a   *)
(* request are both sent to the exchange (start=...&end=...), so a window  *)
(* is the closed set of ticks current_date_start .. current_date_end.      *)
(***************************************************************************)
EXTENDS Integers, Sequences, FiniteSets, TLC

\* ---------------------------------------------------------------- bounds
TicksPerSecond == 2
SecondsPerDay == 2
SleepSeconds == 1
MaxStart == 1
MaxEnd == 9
MaxNow == 13
MaxFetchTicks == 1
MaxBatch == 1
MaxTries == 6
MaxWindows == 4
MaxDate == 1
MaxNum == 0
MaxApplied == 2
MaxLast == 1
MaxClock == 3

\* calls made on one Poloniex object
MaxCalls == 4

\* timedelta(minutes=5*n_ticks_in_future), in ticks
FiveMinutes == 1

\* timedelta(days=1) and timedelta(microseconds=1)
Day == SecondsPerDay * TicksPerSecond
Microsecond == 1
\* time.sleep(60)
SleepTicks == SleepSeconds * TicksPerSecond
\* atempt[...] == 5
StallLimit == 5

Functions == {"thbd", "cth", "cdbd"}
MarketLists == {<<"BTC_ETH">>, <<"BTC_ETH", "BTC_ZRX">>}
\* Python's None where a list of markets is expected: a value that is no list
\* of markets.
None == <<"None">>
\* The keys of the JSON objects of return24hVolume and returnTicker, in their
\* order; an error object has the one key "error".
VolumeKeys ==
    {<<"BTC_ETH", "totalBTC">>, <<"BTC_ETH", "USDT_BTC", "totalBTC">>,
     <<"error">>}
TickerKeys == {<<"BTC_ETH">>, <<"BTC_ETH", "USDT_BTC">>, <<"error">>}
\* What the user can type at input()
Answers == {"n", "N", "y"}
StartDates == 0..MaxStart
EndDates == 0..MaxEnd

VARIABLES
    fn,                  \* which sync function is being run
    currency_pairs,      \* the markets to walk, in order
    insert_to_database,  \* also: mongo_collection is not None
    start_date,          \* also: currency_start_date
    end_date,            \* the argument, or datetime.now() in cth
    now,                 \* the wall clock read by datetime.now()
    pc,                  \* "call", "for", "while", "done", "raised" (out
                         \* of the while loop), "raised_call" (before the
                         \* for loop)
    mi,                  \* index in currency_pairs of the loop's market
    current_date_start,  \* first instant of the window
    current_date_end,    \* last instant of the window
    atempt,              \* cdbd: window-start key -> number of fetches
    trade_history,       \* the accumulated list (chart_data in cdbd)
    sink,                \* the batches handed to insert_many, in order
    ret,                 \* the value returned to the caller
    asked,               \* history: every window requested,
                         \* <<mi, start, end>>
    wins,                \* history: windows whose try block ran to its end
    got,                 \* history: the responses of those try blocks as
                         \* the exchange gave them, each with the index of
                         \* the market of its window, in order
    fails,               \* history: some try block of this run raised
    tries,               \* history: fetches of the current window
                         \* (saturates at MaxTries)
    markets,             \* self.markets of the client __poloniex__
    answer,              \* c = input(), "" while nothing was asked
    trade_part,          \* a candle, coerced in place
    candle_market,       \* the market the candle was fetched for
    applied,             \* history: how often the coercions were applied
    once,                \* history: the candle after the first application
    norm_exc,            \* the exception the last application raised
    poll_pc,             \* main of the scraping bot: "idle" at the top of
                         \* while True, "sleeping" in time.sleep(60);
                         \* "returned" or "crashed" when it has ended
    ticker_insert,       \* insert_to_database of get_new_ticker_data
    tickers_ret,         \* what get_new_ticker_data returned
    ticker_sink,         \* the last batch insert_many(tickers) stored
    poll_caught,         \* the exception the last cycle caught and logged
    log,                 \* the records __log__ of poloniex_bot has emitted,
                         \* each as its level and its format string
    exchange,            \* the markets the exchange lists, in its order
    calls,               \* history: the calls of get_all_markets and
                         \* get_all_btc_markets on one client, in order
    argv,                \* sys.argv[1:] of poloniex_prediction
    pickle_file,         \* the training data pickle can be opened
    pickle_classifier_file,
                         \* the classifier pickle can be opened
    pred_pc,             \* main of poloniex_prediction: "start", "idle" at
                         \* the top of while True, "sleeping", "returned",
                         \* "crashed"
    pred_caught,         \* the exception the last cycle caught and logged
    pred_left,           \* the exception that left volume_prediction
    chart_sink           \* the last batch volume_prediction inserted

\* The state of the client and of the console.
client == <<markets, answer>>

\* The state outside the sync functions: of the candle coercions taken
\* alone, and of the ticker poller.
\* The calls made on a client directly, and the prediction script.
clientHist == <<exchange, calls>>

predictor == <<argv, pickle_file, pickle_classifier_file, pred_pc,
               pred_caught, pred_left, chart_sink>>

side == <<trade_part, candle_market, applied, once, norm_exc, poll_pc,
          ticker_insert, tickers_ret, ticker_sink, poll_caught, clientHist,
          predictor>>

vars == <<fn, currency_pairs, insert_to_database, start_date, end_date, now,
          pc, mi, current_date_start, current_date_end, atempt, trade_history,
          sink, ret, asked, wins, got, fails, tries, client, log, side>>

\* ------------------------------------------------------------ pure helpers
Min(a, b) == IF a < b THEN a ELSE b

FirstWindowEndWholeDay(s) == s + Day

\* start_date + timedelta(days=1) - timedelta(microseconds=1)
FirstWindowEnd(s) == s + Day - Microsecond

PreviousDay(t) == t - Day

\* current_date_start += timedelta(days=1), and the same for the end
NextDay(t) == t + Day

ClampNever(e, target) == e

\* if current_date_end > end_date: current_date_end = end_date
Clamp(e, target) == IF e > target THEN target ELSE e

\* current_date_start.strftime('%Y%m%d%H%M%S'): the start cut to whole seconds
AtemptKey(t) == t \div TicksPerSecond

\* atempt[key] = 1 if key not in atempt, else atempt[key] += 1
CountAtempt(a, k) ==
    IF k \in DOMAIN a THEN [a EXCEPT ![k] = @ + 1] ELSE (k :> 1) @@ a

\* ------------------------------------------------- the exchange and the sink
\* A record of the exchange: the market and window it was asked for, and its
\* position in the response.
RawRecord(m, s, k) == [src |-> m, ws |-> s, k |-> k]

TagWithFirstMarket(r, m) ==
    [src |-> r.src, ws |-> r.ws, k |-> r.k, market |-> currency_pairs[1]]

\* trade_part['market'] = market
Tag(r, m) == [src |-> r.src, ws |-> r.ws, k |-> r.k, market |-> m]

TagAll(batch, m) == [i \in 1..Len(batch) |-> Tag(batch[i], m)]

\* What api_query can produce for a public method: a communication error
\* ends in json.loads(None), a TypeError; otherwise the parsed JSON, which is
\* a list of records, an error object (a dict), or a list whose items are not
\* records with the fields the loop reads.
Responses(m, s) ==
    {[kind |-> "raise", recs |-> <<>>], [kind |-> "dict", recs |-> <<>>],
     [kind |-> "malformed", recs |-> <<>>]}
    \cup {[kind |-> "list", recs |-> [k \in 1..n |-> RawRecord(m, s, k)]] :
            n \in 0..MaxBatch}

\* The exception the try block raises, "none" when it runs to its end:
\* the fetch raises, or tagging a key of an error dict raises, or insert_many
\* raises.
Raised(resp, ins, sinkOk) ==
    IF resp.kind = "raise" THEN "TypeError"
    ELSE IF resp.kind = "dict" THEN "TypeError"
    ELSE IF resp.kind = "malformed" THEN "KeyError"
    ELSE IF ins /\ ~sinkOk THEN "PyMongoError"
    ELSE "none"

CatchesSinkErrorsOnly(exc) == exc \in {"PyMongoError"}

\* except Exception
Catches(exc) ==
    exc \in {"TypeError", "KeyError", "ValueError", "PyMongoError"}

AccumulateAlways(ins, collected, batch) == collected \o batch

\* else: trade_history += current_trade
Accumulate(ins, collected, batch) ==
    IF ins THEN collected ELSE collected \o batch

\* if insert_to_database: insert_many(current_trade)
InsertMany(ins, stored, batch) ==
    IF ins THEN Append(stored, batch) ELSE stored

NoReturn == [kind |-> "pending", val |-> <<>>]

ReturnsNone(ins, collected) == [kind |-> "None", val |-> <<>>]

\* if not insert_to_database: return trade_history
ReturnValue(ins, collected) ==
    IF ins THEN [kind |-> "None", val |-> <<>>]
    ELSE [kind |-> "list", val |-> collected]

Bump(n) == Min(n + 1, MaxTries)

\* The number of one-day windows between s and e, and the inputs of a run:
\* the longer the market list, the shorter the range.
Windows(s, e) == IF e <= s THEN 0 ELSE (e - s + Day - 1) \div Day

Inputs(ms, s, e) ==
    IF ms = None THEN Windows(s, e) <= 1
    ELSE Len(ms) * Windows(s, e) <= MaxWindows

\* ------------------------------------------------- the list of all markets
\* What the listing request gives: a communication error (json.loads(None)
\* raises TypeError), or a JSON object with these keys.
Listings(keys) ==
    {[kind |-> "raise", keys |-> <<>>]}
    \cup {[kind |-> "object", keys |-> k] : k \in keys}

\* isinstance(volumes[market], dict): the totals and the error message are
\* strings
IsDict(key) == key \notin {"totalBTC", "error"}

\* market[:3]
FirstThree(key) ==
    CASE key \in {"BTC_ETH", "BTC_ZRX"} -> "BTC"
      [] key = "USDT_BTC" -> "USD"
      [] key = "totalBTC" -> "tot"
      [] OTHER -> "err"

IsBtcMarket(key) == IsDict(key) /\ FirstThree(key) = "BTC"

\* get_all_markets: the value returned, the exception raised, and self.markets
\* after the call.
GetAllMarkets(cache, resp) ==
    IF cache # None THEN [exc |-> "none", val |-> cache, markets |-> cache]
    ELSE IF resp.kind = "raise"
    THEN [exc |-> "TypeError", val |-> <<>>, markets |-> <<>>]
    ELSE LET l == SelectSeq(resp.keys, IsDict)
         IN [exc |-> "none", val |-> l, markets |-> l]

\* get_all_btc_markets
GetAllBtcMarkets(cache, resp) ==
    IF cache # None THEN [exc |-> "none", val |-> cache, markets |-> cache]
    ELSE IF resp.kind = "raise"
    THEN [exc |-> "TypeError", val |-> <<>>, markets |-> <<>>]
    ELSE LET l == SelectSeq(resp.keys, IsBtcMarket)
         IN [exc |-> "none", val |-> l, markets |-> l]

\* The methods of str; c.toLower() looks one up and raises AttributeError
\* when there is none of that name.
HasStrMethod(name) == name \in {"lower", "upper", "strip", "join"}

\* str.lower
Lower(c) == IF c = "N" THEN "n" ELSE c

\* --------------------------------------------------------------- the log
\* A record of the logger __log__: its level and its format string.
LogRecord(level, msg) == [level |-> level, msg |-> msg]

\* __log__.info('get_trade_history_between_dates(%s, %s, %s)', ...) and
\* __log__.info('get_chart_data_between_dates(%s, %s, %d, %s)', ...)
CallLog(f) ==
    LogRecord("INFO", IF f = "cdbd" THEN "get_chart_data_between_dates"
                      ELSE "get_trade_history_between_dates")

\* __log__.info('__poloniex__.return_public_trade_history(%s, %s, %s)', ...)
\* and __log__.info('__poloniex__.return_chart_data(%s, %s, %s, %d)', ...)
FetchLog(f) ==
    LogRecord("INFO", IF f = "cdbd" THEN "__poloniex__.return_chart_data"
                      ELSE "__poloniex__.return_public_trade_history")

\* __log__.exception('Public trade history method error')
ErrorLog == LogRecord("ERROR", "Public trade history method error")

\* What one pass of a while loop logs: the request, and the exception the
\* handler caught.
LoopLogs(f, exc) ==
    {FetchLog(f)} \cup (IF Catches(exc) THEN {ErrorLog} ELSE {})

\* ------------------------------------------------------ states not in use
\* The candle coercions are not being run on their own.
NormIdle ==
    /\ trade_part = <<>>
    /\ candle_market = ""
    /\ applied = 0
    /\ once = <<>>
    /\ norm_exc = "none"

\* No call is made on a client directly.
ClientIdle ==
    /\ exchange = <<>>
    /\ calls = <<>>

\* The prediction script is not running.
PredIdle ==
    /\ argv = <<>>
    /\ pickle_file = FALSE
    /\ pickle_classifier_file = FALSE
    /\ pred_pc = "start"
    /\ pred_caught = "none"
    /\ pred_left = "none"
    /\ chart_sink = <<>>

\* The scraping bot is not running.
PollIdle ==
    /\ poll_pc = "idle"
    /\ ticker_insert = TRUE
    /\ tickers_ret = NoReturn
    /\ ticker_sink = <<>>
    /\ poll_caught = "none"

\* No sync function is running.
SyncIdle ==
    /\ currency_pairs = None
    /\ markets = None
    /\ answer = ""
    /\ insert_to_database = FALSE
    /\ start_date = 0
    /\ end_date = 0
    /\ pc = "call"
    /\ mi = 0
    /\ current_date_start = 0
    /\ current_date_end = 0
    /\ atempt = <<>>
    /\ trade_history = <<>>
    /\ sink = <<>>
    /\ ret = NoReturn
    /\ asked = {}
    /\ wins = {}
    /\ got = <<>>
    /\ fails = FALSE
    /\ tries = 0
    /\ log = {}

\* ------------------------------------------------------------------- Init
\* A call with an explicit list of markets; in cth the clock now is the time
\* of the call and end_date is read from it by CTH_Call.
Init ==
    /\ fn \in Functions
    /\ currency_pairs \in MarketLists \cup {None}
    /\ markets = None
    /\ answer = ""
    /\ insert_to_database \in BOOLEAN
    /\ start_date \in StartDates
    /\ \/ fn # "cth" /\ end_date \in EndDates /\ now = 0
       \/ fn = "cth" /\ end_date = 0 /\ now \in EndDates
    /\ Inputs(currency_pairs, start_date, IF fn = "cth" THEN now ELSE end_date)
    /\ pc = "call"
    /\ mi = 0
    /\ current_date_start = 0
    /\ current_date_end = 0
    /\ atempt = <<>>
    /\ trade_history = <<>>
    /\ sink = <<>>
    /\ ret = NoReturn
    /\ asked = {}
    /\ wins = {}
    /\ got = <<>>
    /\ fails = FALSE
    /\ tries = 0
    /\ log = {}
    /\ NormIdle
    /\ PollIdle
    /\ ClientIdle
    /\ PredIdle

\* ------------------------------------- get_trade_history_between_dates
THBD_Call ==
    /\ fn = "thbd" /\ pc = "call"
    /\ IF currency_pairs = None
       THEN \E resp \in Listings(VolumeKeys) :
                LET r == GetAllMarkets(markets, resp)
                IN /\ markets' = r.markets
                   /\ IF r.exc = "none"
                      THEN currency_pairs' = r.val /\ pc' = "for"
                      ELSE pc' = "raised_call" /\ UNCHANGED currency_pairs
       ELSE pc' = "for" /\ UNCHANGED <<currency_pairs, markets>>
    /\ trade_history' = <<>>
    /\ UNCHANGED <<fn, insert_to_database, start_date,
                   end_date, now, mi, current_date_start, current_date_end,
                   atempt, sink, ret, asked, wins, got, fails, tries>>
    /\ UNCHANGED <<answer, side>>
    /\ log' = IF pc' = "for" THEN log \cup {CallLog(fn)} ELSE log

THBD_For ==
    /\ fn = "thbd" /\ pc = "for"
    /\ IF mi < Len(currency_pairs)
       THEN /\ mi' = mi + 1
            /\ current_date_start' = start_date
            /\ current_date_end' = FirstWindowEnd(start_date)
            /\ tries' = 0
            /\ pc' = "while"
            /\ UNCHANGED ret
       ELSE /\ pc' = "done"
            /\ ret' = ReturnValue(insert_to_database, trade_history)
            /\ UNCHANGED <<mi, current_date_start, current_date_end, tries>>
    /\ UNCHANGED <<fn, currency_pairs, insert_to_database, start_date,
                   end_date, now, atempt, trade_history, sink, asked, wins,
                   got, fails>>
    /\ UNCHANGED <<client, side>>
    /\ UNCHANGED log

THBD_While ==
    /\ fn = "thbd" /\ pc = "while"
    /\ IF current_date_start < end_date
       THEN
        LET e == Clamp(current_date_end, end_date)
            m == currency_pairs[mi]
        IN \E resp \in Responses(m, current_date_start), sinkOk \in BOOLEAN :
            LET exc == Raised(resp, insert_to_database, sinkOk)
                batch == TagAll(resp.recs, m)
            IN
            /\ log' = log \cup LoopLogs(fn, exc)
            /\ asked' = asked \cup {<<mi, current_date_start, e>>}
            /\ IF exc = "none"
               THEN
                /\ sink' = InsertMany(insert_to_database, sink, batch)
                /\ trade_history' =
                        Accumulate(insert_to_database, trade_history, batch)
                /\ current_date_start' = NextDay(current_date_start)
                /\ current_date_end' = NextDay(e)
                /\ wins' = wins \cup {<<mi, current_date_start, e>>}
                /\ got' = Append(got, [mi |-> mi, recs |-> resp.recs])
                /\ tries' = 0
                /\ UNCHANGED <<pc, fails>>
               ELSE
                /\ current_date_end' = e
                /\ fails' = TRUE
                /\ tries' = Bump(tries)
                /\ pc' = IF Catches(exc) THEN pc ELSE "raised"
                /\ UNCHANGED <<current_date_start, trade_history, sink,
                               wins, got>>
       ELSE
        /\ pc' = "for"
        /\ UNCHANGED log
        /\ UNCHANGED <<current_date_start, current_date_end, trade_history,
                       sink, asked, wins, got, fails, tries>>
    /\ UNCHANGED <<fn, currency_pairs, insert_to_database, start_date,
                   end_date, now, mi, atempt, ret>>
    /\ UNCHANGED <<client, side>>

\* ------------------------------------------- get_complete_trade_history
\* The clock readings datetime.now() can give after a fetch that began at t
\* (the model stops at the horizon MaxNow).
ClockAfterFetch(t) == {u \in t..(t + MaxFetchTicks) : u + SleepTicks <= MaxNow}

LiveTailOrEqual(e, target) == e + Day >= target

\* if current_date_end + timedelta(days=1) > end_date
LiveTail(e, target) == e + Day > target

\* Lines 78-83 ask for a confirmation when no list of markets was given;
\* a return or an exception there leaves end_date unread.
CTH_Call ==
    /\ fn = "cth" /\ pc = "call"
    /\ IF currency_pairs = None
       THEN \E resp \in Listings(VolumeKeys), c \in Answers :
                LET r == GetAllMarkets(markets, resp)
                IN /\ markets' = r.markets
                   /\ IF r.exc # "none"
                      THEN /\ pc' = "raised_call"
                           /\ UNCHANGED <<currency_pairs, answer, end_date,
                                          ret>>
                      ELSE /\ currency_pairs' = r.val
                           /\ answer' = c
                           /\ IF ~HasStrMethod("toLower")
                              THEN /\ pc' = "raised_call"
                                   /\ UNCHANGED <<end_date, ret>>
                              ELSE IF Lower(c) = "n"
                              THEN /\ pc' = "done"
                                   /\ ret' = [kind |-> "None", val |-> <<>>]
                                   /\ UNCHANGED end_date
                              ELSE /\ pc' = "for"
                                   /\ end_date' = now
                                   /\ UNCHANGED ret
       ELSE /\ pc' = "for"
            /\ end_date' = now
            /\ UNCHANGED <<currency_pairs, markets, answer, ret>>
    /\ trade_history' = <<>>
    /\ UNCHANGED <<fn, insert_to_database, start_date, now,
                   mi, current_date_start, current_date_end, atempt, sink,
                   asked, wins, got, fails, tries>>
    /\ UNCHANGED side
    /\ log' = IF pc' = "for" THEN log \cup {CallLog(fn)} ELSE log

CTH_For ==
    /\ fn = "cth" /\ pc = "for"
    /\ IF mi < Len(currency_pairs)
       THEN /\ mi' = mi + 1
            /\ current_date_start' = start_date
            /\ current_date_end' = FirstWindowEnd(start_date)
            /\ tries' = 0
            /\ pc' = "while"
            /\ UNCHANGED ret
       ELSE /\ pc' = "done"
            /\ ret' = ReturnValue(insert_to_database, trade_history)
            /\ UNCHANGED <<mi, current_date_start, current_date_end, tries>>
    /\ UNCHANGED <<fn, currency_pairs, insert_to_database, start_date,
                   end_date, now, atempt, trade_history, sink, asked, wins,
                   got, fails>>
    /\ UNCHANGED <<client, side>>
    /\ UNCHANGED log

CTH_While ==
    /\ fn = "cth" /\ pc = "while"
    /\ IF current_date_start < end_date
       THEN
        LET e == Clamp(current_date_end, end_date)
            m == currency_pairs[mi]
        IN \E resp \in Responses(m, current_date_start), sinkOk \in BOOLEAN,
              t \in ClockAfterFetch(now) :
            LET exc == Raised(resp, insert_to_database, sinkOk)
                batch == TagAll(resp.recs, m)
            IN
            /\ log' = log \cup LoopLogs(fn, exc)
            /\ asked' = asked \cup {<<mi, current_date_start, e>>}
            /\ IF exc = "none"
               THEN
                /\ sink' = InsertMany(insert_to_database, sink, batch)
                /\ trade_history' =
                        Accumulate(insert_to_database, trade_history, batch)
                /\ IF LiveTail(e, end_date)
                   THEN /\ current_date_start' = e
                        /\ now' = t + SleepTicks
                        /\ current_date_end' = now'
                        /\ end_date' = now'
                   ELSE /\ current_date_start' = NextDay(current_date_start)
                        /\ current_date_end' = NextDay(e)
                        /\ now' = t
                        /\ UNCHANGED end_date
                /\ wins' = wins \cup {<<mi, current_date_start, e>>}
                /\ got' = Append(got, [mi |-> mi, recs |-> resp.recs])
                /\ tries' = 0
                /\ UNCHANGED <<pc, fails>>
               ELSE
                /\ current_date_end' = e
                /\ now' = t
                /\ fails' = TRUE
                /\ tries' = Bump(tries)
                /\ pc' = IF Catches(exc) THEN pc ELSE "raised"
                /\ UNCHANGED <<current_date_start, end_date, trade_history,
                               sink, wins, got>>
       ELSE
        /\ pc' = "for"
        /\ UNCHANGED log
        /\ UNCHANGED <<current_date_start, current_date_end, end_date, now,
                       trade_history, sink, asked, wins, got, fails, tries>>
    /\ UNCHANGED <<fn, currency_pairs, insert_to_database, start_date, mi,
                   atempt, ret>>
    /\ UNCHANGED <<client, side>>

\* ----------------------------------------- get_chart_data_between_dates
AtemptKept == atempt

\* atempt = {}
AtemptReset == <<>>

StalledAtPreviousDay(a, s) ==
    /\ AtemptKey(PreviousDay(s)) \in DOMAIN a
    /\ a[AtemptKey(PreviousDay(s))] = StallLimit

StalledOneLate(a, s) ==
    AtemptKey(s) \in DOMAIN a /\ a[AtemptKey(s)] = StallLimit + 1

StalledOneEarly(a, s) ==
    AtemptKey(s) \in DOMAIN a /\ a[AtemptKey(s)] = StallLimit - 1

\* if key in atempt and atempt[key] == 5
Stalled(a, s) == AtemptKey(s) \in DOMAIN a /\ a[AtemptKey(s)] = StallLimit

CDBD_Call ==
    /\ fn = "cdbd" /\ pc = "call"
    /\ IF currency_pairs = None
       THEN \E resp \in Listings(TickerKeys) :
                LET r == GetAllBtcMarkets(markets, resp)
                IN /\ markets' = r.markets
                   /\ IF r.exc = "none"
                      THEN currency_pairs' = r.val /\ pc' = "for"
                      ELSE pc' = "raised_call" /\ UNCHANGED currency_pairs
       ELSE pc' = "for" /\ UNCHANGED <<currency_pairs, markets>>
    /\ trade_history' = <<>>
    /\ UNCHANGED <<fn, insert_to_database, start_date,
                   end_date, now, mi, current_date_start, current_date_end,
                   atempt, sink, ret, asked, wins, got, fails, tries>>
    /\ UNCHANGED <<answer, side>>
    /\ log' = IF pc' = "for" THEN log \cup {CallLog(fn)} ELSE log

CDBD_For ==
    /\ fn = "cdbd" /\ pc = "for"
    /\ IF mi < Len(currency_pairs)
       THEN /\ mi' = mi + 1
            /\ current_date_start' = start_date
            /\ current_date_end' = FirstWindowEnd(start_date)
            /\ atempt' = AtemptReset
            /\ tries' = 0
            /\ pc' = "while"
            /\ UNCHANGED ret
       ELSE /\ pc' = "done"
            /\ ret' = ReturnValue(insert_to_database, trade_history)
            /\ UNCHANGED <<mi, current_date_start, current_date_end, atempt,
                           tries>>
    /\ UNCHANGED <<fn, currency_pairs, insert_to_database, start_date,
                   end_date, now, trade_history, sink, asked, wins, got,
                   fails>>
    /\ UNCHANGED <<client, side>>
    /\ UNCHANGED log

CDBD_While ==
    /\ fn = "cdbd" /\ pc = "while"
    /\ IF current_date_start < end_date
       THEN
        LET e == Clamp(current_date_end, end_date)
            m == currency_pairs[mi]
            counted == CountAtempt(atempt, AtemptKey(current_date_start))
        IN \E resp \in Responses(m, current_date_start), sinkOk \in BOOLEAN :
            LET exc == Raised(resp, insert_to_database, sinkOk)
                batch == TagAll(resp.recs, m)
                \* the window after the try statement
                s1 == IF exc = "none" THEN NextDay(current_date_start)
                      ELSE current_date_start
                e1 == IF exc = "none" THEN NextDay(e) ELSE e
            IN
            /\ log' = log \cup LoopLogs(fn, exc)
            /\ asked' = asked \cup {<<mi, current_date_start, e>>}
            /\ atempt' = counted
            /\ IF exc = "none"
               THEN
                /\ sink' = InsertMany(insert_to_database, sink, batch)
                /\ trade_history' =
                        Accumulate(insert_to_database, trade_history, batch)
                /\ wins' = wins \cup {<<mi, current_date_start, e>>}
                /\ got' = Append(got, [mi |-> mi, recs |-> resp.recs])
                /\ UNCHANGED fails
               ELSE
                /\ fails' = TRUE
                /\ UNCHANGED <<trade_history, sink, wins, got>>
            /\ IF exc = "none" \/ Catches(exc)
               THEN
                /\ IF Stalled(counted, s1)
                   THEN /\ current_date_start' = NextDay(s1)
                        /\ current_date_end' = NextDay(e1)
                   ELSE /\ current_date_start' = s1
                        /\ current_date_end' = e1
                /\ tries' = IF current_date_start' = current_date_start
                            THEN Bump(tries) ELSE 0
                /\ UNCHANGED pc
               ELSE
                /\ pc' = "raised"
                /\ current_date_end' = e
                /\ tries' = Bump(tries)
                /\ UNCHANGED current_date_start
       ELSE
        /\ pc' = "for"
        /\ UNCHANGED log
        /\ UNCHANGED <<current_date_start, current_date_end, atempt,
                       trade_history, sink, asked, wins, got, fails, tries>>
    /\ UNCHANGED <<fn, currency_pairs, insert_to_database, start_date,
                   end_date, now, mi, ret>>
    /\ UNCHANGED <<client, side>>

Next ==
    \/ THBD_Call \/ THBD_For \/ THBD_While
    \/ CTH_Call \/ CTH_For \/ CTH_While
    \/ CDBD_Call \/ CDBD_For \/ CDBD_While

Spec == Init /\ [][Next]_vars

\* ------------------------------------------------- the candle coercions
\* A Python value: its type and, for a number, a string of digits or a
\* timestamp, the number it stands for.
Value(t, v) == [t |-> t, v |-> v]

\* int(x): defined for numbers and strings of digits; a datetime has no
\* __int__, so int raises TypeError.
PyInt(x) ==
    IF x.t \in {"int", "float", "str"}
    THEN [exc |-> "none", val |-> Value("int", x.v)]
    ELSE [exc |-> "TypeError", val |-> x]

\* datetime.fromtimestamp(n)
FromTimestamp(n) == Value("datetime", n.v)

\* float(x)
PyFloat(x) ==
    IF x.t \in {"int", "float", "str"}
    THEN [exc |-> "none", val |-> Value("float", x.v)]
    ELSE [exc |-> "TypeError", val |-> x]

\* trade_part[key] = value, for a key the dict may not have yet
SetItem(d, key, value) ==
    [f \in DOMAIN d \cup {key} |-> IF f = key THEN value ELSE d[f]]

NumericFields ==
    <<"high", "low", "open", "close", "volume", "quoteVolume",
      "weightedAverage">>

\* Lines 157-163, from the i-th of them on
RECURSIVE FloatFields(_, _)
FloatFields(d, i) ==
    IF i > Len(NumericFields) THEN [exc |-> "none", rec |-> d]
    ELSE LET f == NumericFields[i]
             x == PyFloat(d[f])
         IN IF x.exc # "none" THEN [exc |-> x.exc, rec |-> d]
            ELSE FloatFields(SetItem(d, f, x.val), i + 1)

\* Lines 155-163 on one trade_part: the exception raised, and the dict as
\* the statements that ran have left it.
Normalize(d, m) ==
    LET tagged == SetItem(d, "market", m)
        n == PyInt(tagged["date"])
    IN IF n.exc # "none" THEN [exc |-> n.exc, rec |-> tagged]
       ELSE FloatFields(SetItem(tagged, "date", FromTimestamp(n.val)), 1)

\* The candles of the exchange: date in UNIX seconds, numbers as JSON
\* numbers or as strings.
DateInputs == {Value(t, v) : t \in {"int", "str"}, v \in 0..MaxDate}

NumInputs == {Value(t, v) : t \in {"float", "str"}, v \in 0..MaxNum}

RawCandles ==
    [date : DateInputs, high : NumInputs, low : NumInputs, open : NumInputs,
     close : NumInputs, volume : NumInputs, quoteVolume : NumInputs,
     weightedAverage : NumInputs]

InitNorm ==
    /\ fn = "normalize"
    /\ now = 0
    /\ SyncIdle
    /\ PollIdle
    /\ ClientIdle
    /\ PredIdle
    /\ candle_market \in {"BTC_ETH", "BTC_ZRX"}
    /\ trade_part \in RawCandles
    /\ once = trade_part
    /\ applied = 0
    /\ norm_exc = "none"

\* The coercions are applied to the dict, again while none has raised.
NormalizeCandle ==
    /\ fn = "normalize" /\ applied < MaxApplied /\ norm_exc = "none"
    /\ LET r == Normalize(trade_part, candle_market)
       IN /\ trade_part' = r.rec
          /\ norm_exc' = r.exc
          /\ once' = IF applied = 0 THEN r.rec ELSE once
    /\ applied' = applied + 1
    /\ UNCHANGED <<fn, currency_pairs, insert_to_database, start_date,
                   end_date, now, pc, mi, current_date_start,
                   current_date_end, atempt, trade_history, sink, ret, asked,
                   wins, got, fails, tries, client>>
    /\ UNCHANGED <<candle_market, poll_pc, ticker_insert, tickers_ret,
                   ticker_sink, poll_caught>>
    /\ UNCHANGED <<log, clientHist, predictor>>

NextNorm == NormalizeCandle

SpecNorm == InitNorm /\ [][NextNorm]_vars

\* ------------------------------------- the scraping bot's ticker poller
\* What return_ticker can produce: a communication error, or a JSON object
\* with these keys; under an "error" key there is a message, under a market
\* a ticker with its last price.
TickerResponses ==
    {[kind |-> "raise", keys |-> <<>>, last |-> <<>>]}
    \cup UNION {{[kind |-> "object", keys |-> k, last |-> f] :
                    f \in [1..Len(k) -> 0..MaxLast]} : k \in TickerKeys}

\* The keys the for loop gets through: tagging the value of a key that is
\* no dict raises TypeError.
DictPrefix(keys) ==
    LET bad == {i \in 1..Len(keys) : ~IsDict(keys[i])}
    IN IF bad = {} THEN keys
       ELSE SubSeq(keys, 1, (CHOOSE i \in bad : \A j \in bad : i <= j) - 1)

\* ticker['market'] = market; ticker['time'] = datetime.now().strftime(...)
TagTicker(resp, i, t) ==
    [src |-> resp.keys[i], last |-> resp.last[i], market |-> resp.keys[i],
     time |-> t \div TicksPerSecond]

\* get_new_ticker_data(flag) with the clock reading t: the exception the try
\* block raised and the handler caught, the exception that left the call,
\* the value returned, and the batch insert_many stored.
GetNewTickerData(flag, resp, sinkOk, t) ==
    LET fetched == resp.kind # "raise"
        through == DictPrefix(resp.keys)
        tickers == [i \in 1..Len(through) |-> TagTicker(resp, i, t)]
        exc == IF ~fetched THEN "TypeError"
               ELSE IF Len(through) < Len(resp.keys) THEN "TypeError"
               ELSE IF flag /\ ~sinkOk THEN "PyMongoError"
               ELSE "none"
        left == IF exc # "none" /\ ~Catches(exc) THEN exc
                ELSE IF ~flag /\ ~fetched THEN "UnboundLocalError"
                ELSE "none"
    IN [caught |-> IF Catches(exc) THEN exc ELSE "none",
        left |-> left,
        ret |-> IF left # "none" THEN NoReturn
                ELSE IF flag THEN [kind |-> "None", val |-> <<>>]
                ELSE [kind |-> "list", val |-> tickers],
        stored |-> flag /\ exc = "none",
        tickers |-> tickers]

\* What datetime.now() can read in a cycle; the wall clock can be set back.
ClockReadings == 0..MaxClock

\* python poloniex_scraping_bot.py
InitMain ==
    /\ fn = "main"
    /\ now = 0
    /\ SyncIdle
    /\ NormIdle
    /\ PollIdle
    /\ ClientIdle
    /\ PredIdle

\* One pass of while True up to the sleep: the time is printed and
\* get_new_ticker_data() runs with its default flag.
Main_Cycle ==
    /\ fn = "main" /\ poll_pc = "idle"
    /\ \E resp \in TickerResponses, sinkOk \in BOOLEAN, t \in ClockReadings :
        LET r == GetNewTickerData(ticker_insert, resp, sinkOk, t)
        IN /\ now' = t
           /\ poll_caught' = r.caught
           /\ tickers_ret' = r.ret
           /\ ticker_sink' = IF r.stored THEN r.tickers ELSE ticker_sink
           /\ poll_pc' = IF r.left = "none" THEN "sleeping" ELSE "crashed"
    /\ UNCHANGED <<fn, currency_pairs, insert_to_database, start_date,
                   end_date, pc, mi, current_date_start, current_date_end,
                   atempt, trade_history, sink, ret, asked, wins, got, fails,
                   tries, client>>
    /\ UNCHANGED <<trade_part, candle_market, applied, once, norm_exc,
                   ticker_insert>>
    /\ UNCHANGED <<log, clientHist, predictor>>

\* time.sleep(60) returns
Main_Sleep ==
    /\ fn = "main" /\ poll_pc = "sleeping"
    /\ poll_pc' = "idle"
    /\ UNCHANGED <<fn, currency_pairs, insert_to_database, start_date,
                   end_date, now, pc, mi, current_date_start,
                   current_date_end, atempt, trade_history, sink, ret, asked,
                   wins, got, fails, tries, client>>
    /\ UNCHANGED <<trade_part, candle_market, applied, once, norm_exc,
                   ticker_insert, tickers_ret, ticker_sink, poll_caught>>
    /\ UNCHANGED <<log, clientHist, predictor>>

NextMain == Main_Cycle \/ Main_Sleep

\* The interpreter runs the single thread of main, and sleep returns.
SpecMain == InitMain /\ [][NextMain]_vars /\ WF_vars(NextMain)

\* ------------------------------------------- one Poloniex object's cache
\* The markets the exchange lists, in the order of its JSON objects
Exchanges == {<<"BTC_ETH">>, <<"BTC_ETH", "USDT_BTC">>}

\* return24hVolume of exchange x: its markets and the totals; or an error
\* object; or a communication error
VolumeListings(x) == Listings({x \o <<"totalBTC">>, <<"error">>})

\* returnTicker of exchange x
TickerListings(x) == Listings({x, <<"error">>})

\* What a call looked like from outside: the method, whether it fetched,
\* what the fetch gave, the exception raised and the value returned.
CallRecord(name, cache, resp, r) ==
    [name |-> name, fetched |-> cache = None,
     resp |-> IF cache = None THEN resp.kind ELSE "none",
     error |-> cache = None /\ resp.keys = <<"error">>,
     exc |-> r.exc, val |-> r.val]

\* Poloniex(None, None): self.markets = None
InitClient ==
    /\ fn = "client"
    /\ now = 0
    /\ SyncIdle
    /\ NormIdle
    /\ PollIdle
    /\ PredIdle
    /\ exchange \in Exchanges
    /\ calls = <<>>

Client_GetAllMarkets ==
    /\ fn = "client" /\ Len(calls) < MaxCalls
    /\ \E resp \in VolumeListings(exchange) :
        LET r == GetAllMarkets(markets, resp)
        IN /\ markets' = r.markets
           /\ calls' = Append(calls, CallRecord("get_all_markets", markets,
                                                resp, r))
    /\ UNCHANGED <<fn, currency_pairs, insert_to_database, start_date,
                   end_date, now, pc, mi, current_date_start,
                   current_date_end, atempt, trade_history, sink, ret, asked,
                   wins, got, fails, tries, answer, log>>
    /\ UNCHANGED <<trade_part, candle_market, applied, once, norm_exc,
                   poll_pc, ticker_insert, tickers_ret, ticker_sink,
                   poll_caught, exchange, predictor>>

Client_GetAllBtcMarkets ==
    /\ fn = "client" /\ Len(calls) < MaxCalls
    /\ \E resp \in TickerListings(exchange) :
        LET r == GetAllBtcMarkets(markets, resp)
        IN /\ markets' = r.markets
           /\ calls' = Append(calls, CallRecord("get_all_btc_markets",
                                                markets, resp, r))
    /\ UNCHANGED <<fn, currency_pairs, insert_to_database, start_date,
                   end_date, now, pc, mi, current_date_start,
                   current_date_end, atempt, trade_history, sink, ret, asked,
                   wins, got, fails, tries, answer, log>>
    /\ UNCHANGED <<trade_part, candle_market, applied, once, norm_exc,
                   poll_pc, ticker_insert, tickers_ret, ticker_sink,
                   poll_caught, exchange, predictor>>

NextClient == Client_GetAllMarkets \/ Client_GetAllBtcMarkets

SpecClient == InitClient /\ [][NextClient]_vars

\* A program that imports the scraping bot and calls get_new_ticker_data
\* as its docstring shows, with either flag, any number of times.
InitTicker ==
    /\ fn = "ticker"
    /\ now = 0
    /\ SyncIdle
    /\ NormIdle
    /\ PollIdle
    /\ ClientIdle
    /\ PredIdle

\* get_new_ticker_data(flag), from its first line to its return or to the
\* exception that leaves it
Ticker_Call ==
    /\ fn = "ticker" /\ poll_pc \in {"idle", "returned"}
    /\ \E flag \in BOOLEAN, resp \in TickerResponses, sinkOk \in BOOLEAN,
          t \in ClockReadings :
        LET r == GetNewTickerData(flag, resp, sinkOk, t)
        IN /\ now' = t
           /\ ticker_insert' = flag
           /\ poll_caught' = r.caught
           /\ tickers_ret' = r.ret
           /\ ticker_sink' = IF r.stored THEN r.tickers ELSE ticker_sink
           /\ poll_pc' = IF r.left = "none" THEN "returned" ELSE "crashed"
    /\ UNCHANGED <<fn, currency_pairs, insert_to_database, start_date,
                   end_date, pc, mi, current_date_start, current_date_end,
                   atempt, trade_history, sink, ret, asked, wins, got, fails,
                   tries, client>>
    /\ UNCHANGED <<trade_part, candle_market, applied, once, norm_exc>>
    /\ UNCHANGED <<log, clientHist, predictor>>

NextTicker == Ticker_Call

SpecTicker == InitTicker /\ [][NextTicker]_vars

\* --------------------------------------------- poloniex_prediction's main
\* What the statements of volume_prediction outside its try block can do:
\* the query of the store raises, or gives no documents (set_index('date')
\* then raises KeyError); pickle.load raises on a damaged file; fit raises
\* on data it cannot be trained on.  Inside the try block predict can raise.
PredOutcomes ==
    [store : {"ok", "PyMongoError", "KeyError"}, load : BOOLEAN,
     loadc : BOOLEAN, fit : BOOLEAN, predict : BOOLEAN]

\* The exception lines 118-142 raise, "none" when they run to their end.
RaisedPredicting(resp, sinkOk, o) ==
    IF resp.kind \in {"raise", "dict"} THEN "TypeError"
    ELSE IF resp.kind = "malformed" THEN "KeyError"
    ELSE IF ~sinkOk THEN "PyMongoError"
    ELSE IF ~o.predict THEN "ValueError"
    ELSE "none"

\* volume_prediction(m) with the two pickle files as pf and pcf say and the
\* clock reading t: the exception that left the call, the exception its
\* handler caught, the files after the call, and the batch it inserted.
VolumePrediction(m, pf, pcf, o, resp, sinkOk, t) ==
    LET trainExc == IF pf THEN (IF o.load THEN "none" ELSE "UnpicklingError")
                    ELSE IF o.store # "ok" THEN o.store ELSE "none"
        pf1 == pf \/ trainExc = "none"
        clsExc == IF trainExc # "none" THEN "none"
                  ELSE IF pcf /\ ~o.loadc THEN "UnpicklingError"
                  ELSE IF ~pcf /\ ~o.fit THEN "ValueError"
                  ELSE "none"
        tried == trainExc = "none" /\ clsExc = "none" /\ pcf
        exc == IF tried THEN RaisedPredicting(resp, sinkOk, o) ELSE "none"
        left == IF trainExc # "none" THEN trainExc
                ELSE IF clsExc # "none" THEN clsExc
                ELSE IF exc # "none" /\ ~Catches(exc) THEN exc
                ELSE "none"
    IN [left |-> left,
        caught |-> IF Catches(exc) THEN exc ELSE "none",
        pickle_file |-> pf1,
        pickle_classifier_file |->
            pcf \/ (trainExc = "none" /\ clsExc = "none"),
        stored |-> tried /\ resp.kind = "list" /\ sinkOk,
        batch |-> TagAll(resp.recs, m)]

\* python poloniex_prediction.py [market], with the pickle files earlier
\* runs may have left
InitPred ==
    /\ fn = "predict"
    /\ now = 0
    /\ SyncIdle
    /\ NormIdle
    /\ PollIdle
    /\ ClientIdle
    /\ argv \in {<<>>, <<"BTC_ETH">>}
    /\ pickle_file \in BOOLEAN
    /\ pickle_classifier_file \in BOOLEAN
    /\ pred_pc = "start"
    /\ pred_caught = "none"
    /\ pred_left = "none"
    /\ chart_sink = <<>>

\* if len(sys.argv) > 1: the loop is inside the if; without an argument
\* main returns
Pred_Start ==
    /\ fn = "predict" /\ pred_pc = "start"
    /\ pred_pc' = IF Len(argv) > 0 THEN "idle" ELSE "returned"
    /\ UNCHANGED <<fn, currency_pairs, insert_to_database, start_date,
                   end_date, now, pc, mi, current_date_start,
                   current_date_end, atempt, trade_history, sink, ret, asked,
                   wins, got, fails, tries, client, log>>
    /\ UNCHANGED <<trade_part, candle_market, applied, once, norm_exc,
                   poll_pc, ticker_insert, tickers_ret, ticker_sink,
                   poll_caught, clientHist>>
    /\ UNCHANGED <<argv, pickle_file, pickle_classifier_file, pred_caught,
                   pred_left, chart_sink>>

\* One pass of while True up to the sleep: volume_prediction(specific_market)
Pred_Cycle ==
    /\ fn = "predict" /\ pred_pc = "idle"
    /\ \E o \in PredOutcomes, sinkOk \in BOOLEAN, t \in ClockReadings :
        \E resp \in Responses(argv[1], t - FiveMinutes) :
        LET r == VolumePrediction(argv[1], pickle_file,
                                  pickle_classifier_file, o, resp, sinkOk, t)
        IN /\ now' = t
           /\ pickle_file' = r.pickle_file
           /\ pickle_classifier_file' = r.pickle_classifier_file
           /\ pred_caught' = r.caught
           /\ pred_left' = r.left
           /\ chart_sink' = IF r.stored THEN r.batch ELSE chart_sink
           /\ pred_pc' = IF r.left = "none" THEN "sleeping" ELSE "crashed"
    /\ UNCHANGED <<fn, currency_pairs, insert_to_database, start_date,
                   end_date, pc, mi, current_date_start, current_date_end,
                   atempt, trade_history, sink, ret, asked, wins, got, fails,
                   tries, client, log>>
    /\ UNCHANGED <<trade_part, candle_market, applied, once, norm_exc,
                   poll_pc, ticker_insert, tickers_ret, ticker_sink,
                   poll_caught, clientHist, argv>>

\* time.sleep(1800) returns
Pred_Sleep ==
    /\ fn = "predict" /\ pred_pc = "sleeping"
    /\ pred_pc' = "idle"
    /\ UNCHANGED <<fn, currency_pairs, insert_to_database, start_date,
                   end_date, now, pc, mi, current_date_start,
                   current_date_end, atempt, trade_history, sink, ret, asked,
                   wins, got, fails, tries, client, log>>
    /\ UNCHANGED <<trade_part, candle_market, applied, once, norm_exc,
                   poll_pc, ticker_insert, tickers_ret, ticker_sink,
                   poll_caught, clientHist>>
    /\ UNCHANGED <<argv, pickle_file, pickle_classifier_file, pred_caught,
                   pred_left, chart_sink>>

NextPred == Pred_Start \/ Pred_Cycle \/ Pred_Sleep

\* The interpreter runs the single thread of main, and sleep returns.
SpecPred == InitPred /\ [][NextPred]_vars /\ WF_vars(NextPred)

\* ---------------------------------------------------------------- history
\* The ticks a request <<mi, start, end>> asks the exchange for.
Ticks(w) == w[2]..w[3]

WinsOf(i) == {w \in wins : w[1] = i}

AskedOf(i) == {w \in asked : w[1] = i}

\* The markets whose while loop has ended.
Walked == IF pc = "while" THEN 1..(mi - 1) ELSE 1..mi

\* The request with the latest start among those of market i.
LastAsked(i) == CHOOSE w \in AskedOf(i) : \A v \in AskedOf(i) : v[2] <= w[2]

BetweenDates == fn \in {"thbd", "cdbd"}

\* ------------------------------------------------------------------ claims

\* C1: in get_trade_history_between_dates and get_chart_data_between_dates,
\* while no try block has raised, the windows fetched for a market start at
\* start_date, lie whole days apart, hold at most one day of ticks, share no
\* tick, and leave no tick of [start_date, end_date) below the position of
\* the walk uncovered; start and end of the window have moved on by exactly
\* one day after each of them.
C1_WindowsCoverRange ==
    (BetweenDates /\ ~fails /\ pc \in {"for", "while", "done"}) =>
        \A i \in 1..mi :
            LET W == WinsOf(i)
                upto == IF i \in Walked THEN end_date
                        ELSE Min(current_date_start, end_date)
            IN /\ \A w \in W : /\ w[2] >= start_date
                               /\ (w[2] - start_date) % Day = 0
                               /\ Cardinality(Ticks(w)) <= Day
                               /\ Cardinality(Ticks(w)) >= 1
               /\ \A v, w \in W : v # w => Ticks(v) \cap Ticks(w) = {}
               /\ \A t \in start_date..(upto - 1) : \E w \in W : t \in Ticks(w)
               /\ (i = mi /\ pc = "while") =>
                    /\ current_date_start = start_date + Cardinality(W) * Day
                    /\ W # {} => \E w \in W : /\ w[2] = current_date_start - Day
                                              /\ current_date_end = w[3] + Day

C1_Witness ==
    /\ BetweenDates /\ ~fails /\ pc = "done"
    /\ Cardinality(WinsOf(1)) >= 2
    /\ \E w \in WinsOf(1) : w[3] = end_date /\ w[3] - w[2] < Day - 1

\* C2 as stated: the last window requested for a market ends exactly at
\* end_date, whatever the length of the range.
C2_LastWindowEndsAtEnd ==
    (BetweenDates /\ start_date < end_date) =>
        \A i \in Walked : LastAsked(i)[3] = end_date

\* C2 amended: the last window requested for a market ends at end_date, except
\* when end_date - start_date is a whole number of days: then it ends one
\* microsecond before end_date.
C2_LastWindowEnd ==
    (BetweenDates /\ start_date < end_date) =>
        \A i \in Walked :
            LastAsked(i)[3] = IF (end_date - start_date) % Day = 0
                              THEN end_date - Microsecond
                              ELSE end_date

C2_Witness ==
    /\ BetweenDates /\ pc = "done"
    /\ end_date - start_date = 2 * Day
    /\ LastAsked(Len(currency_pairs))[3] = end_date - Microsecond

\* C3: get_trade_history_between_dates and get_complete_trade_history fetch
\* one window at most StallLimit times in a row before they move on.
C3_RetriesBounded ==
    fn \in {"thbd", "cth"} => tries <= StallLimit

\* C4: in get_chart_data_between_dates no window start is fetched more than
\* StallLimit times, a window start that was left without a fetch that
\* succeeded was fetched exactly StallLimit times, and start and end of the
\* window then stand exactly one day after those of the window left.
C4_StallAdvancesAfterFive ==
    (fn = "cdbd" /\ pc = "while") =>
        LET n == (current_date_start - start_date) \div Day
        IN /\ \A k \in DOMAIN atempt : atempt[k] <= StallLimit
           /\ current_date_start = start_date + n * Day
           /\ AtemptKey(current_date_start) \in DOMAIN atempt =>
                atempt[AtemptKey(current_date_start)] < StallLimit
           /\ \A j \in 0..(n - 1) :
                LET s == start_date + j * Day
                    e == Clamp(FirstWindowEnd(s), end_date)
                IN /\ <<mi, s, e>> \in asked
                   /\ <<mi, s, e>> \notin wins
                        => atempt[AtemptKey(s)] = StallLimit
                   /\ j = n - 1 =>
                        current_date_end = IF tries = 0 THEN e + Day
                                  ELSE Clamp(e + Day, end_date)

C4_Witness ==
    /\ fn = "cdbd" /\ pc = "while"
    /\ WinsOf(mi) = {}
    /\ current_date_start = start_date + Day
    /\ atempt[AtemptKey(start_date)] = StallLimit

\* C5: no error raised by the fetch, the tagging or the insert of a window
\* leaves a sync function: the call never ends by raising.
C5_ErrorsStayInLoop == pc # "raised"

C5_Witness == fn = "cth" /\ fails /\ pc = "while" /\ sink # <<>>

\* ------------------------------------------- one function at a time, fair
\* The interpreter runs the single thread of a call until it returns.  The
\* call is one with its list of markets given.
InitCDBD == Init /\ fn = "cdbd" /\ currency_pairs # None

NextCDBD == CDBD_Call \/ CDBD_For \/ CDBD_While

SpecCDBD == InitCDBD /\ [][NextCDBD]_vars /\ WF_vars(NextCDBD)

InitCTH == Init /\ fn = "cth" /\ currency_pairs # None

NextCTH == CTH_Call \/ CTH_For \/ CTH_While

SpecCTH == InitCTH /\ [][NextCTH]_vars /\ WF_vars(NextCTH)

\* Every one-day window start of [start_date, end_date) was requested for
\* market i.
WalkedWhole(i) ==
    \A j \in 0..(Windows(start_date, end_date) - 1) :
        \E w \in AskedOf(i) : w[2] = start_date + j * Day

\* C6: in get_chart_data_between_dates every market starts with an empty
\* attempt counter and its window at start_date, and whatever the fetches of
\* the markets before it did, the call ends with every market of the input
\* walked from start_date to end_date.
C6_MarketsIsolated ==
    /\ []((pc = "while" /\ AskedOf(mi) = {}) =>
            (atempt = <<>> /\ current_date_start = start_date))
    /\ <>(pc = "done" /\ \A i \in 1..Len(currency_pairs) : WalkedWhole(i))

C6_Witness ==
    /\ fn = "cdbd" /\ pc = "done" /\ Len(currency_pairs) = 2
    /\ AskedOf(1) # {} /\ WinsOf(1) = {}
    /\ WinsOf(2) # {}

CTH_StaysOnFirstWalkedMarket ==
    (fn = "cth" /\ asked # {}) => (mi = 1 /\ pc = "while")

\* C8: in get_complete_trade_history no tick is requested by two different
\* windows of a market whose try block ran to its end.
C8_WindowsNeverOverlap ==
    fn = "cth" =>
        \A i \in 1..mi : \A v, w \in WinsOf(i) :
            v # w => Ticks(v) \cap Ticks(w) = {}

\* The records of a sequence of batches, in order.
RECURSIVE Flatten(_)
Flatten(batches) ==
    IF batches = <<>> THEN <<>>
    ELSE Head(batches) \o Flatten(Tail(batches))

Delivered == Flatten(sink) \o trade_history \o ret.val

\* C9: every record in the sink, in the accumulated collection or in the
\* returned collection carries the market its window fetch was made for.
C9_RecordsCarryTheirMarket ==
    \A p \in 1..Len(Delivered) : Delivered[p].market = Delivered[p].src

C9_Witness ==
    /\ Len(currency_pairs) = 2
    /\ \E p \in 1..Len(Delivered) : Delivered[p].src = currency_pairs[2]

\* The responses in got as the window loop delivers them: each record tagged
\* with the market it was fetched for.
Expected ==
    [b \in 1..Len(got) |-> TagAll(got[b].recs, currency_pairs[got[b].mi])]

\* C10: in get_trade_history_between_dates and get_chart_data_between_dates,
\* with insert_to_database the sink holds one batch per window whose try
\* block ran to its end, nothing is accumulated and the call returns None;
\* without it the sink stays empty and the call returns the batches of those
\* windows concatenated in fetch order.
C10_DeliveryModeExclusive ==
    BetweenDates =>
        IF insert_to_database
        THEN /\ trade_history = <<>>
             /\ sink = Expected
             /\ Len(sink) = Cardinality(wins)
             /\ pc = "done" => ret = [kind |-> "None", val |-> <<>>]
        ELSE /\ sink = <<>>
             /\ trade_history = Flatten(Expected)
             /\ pc = "done" => ret = [kind |-> "list", val |-> trade_history]

C10_Witness ==
    /\ BetweenDates /\ ~insert_to_database /\ pc = "done"
    /\ Len(got) >= 2 /\ Len(ret.val) >= 2

\* C15: when get_complete_trade_history is called without a list of markets
\* (the client then lists them, so self.markets is set), no window is fetched
\* before the confirmation was answered; the call never raises at the
\* confirmation; after the answer 'n' or 'N' it has returned with no window
\* fetched and nothing written to the sink.
C15_ConfirmationGuardsTheSync ==
    (fn = "cth" /\ markets # None) =>
        /\ asked # {} => answer # ""
        /\ answer # "" => pc # "raised_call"
        /\ answer \in {"n", "N"} =>
               pc = "done" /\ asked = {} /\ sink = <<>>

\* C11: the candle coercions of get_chart_data_between_dates applied to a
\* candle they have already been applied to raise nothing and leave the
\* candle as the first application left it.
C11_NormalizationIdempotent ==
    (fn = "normalize" /\ applied > 1) =>
        norm_exc = "none" /\ trade_part = once

\* What a finished call has handed over: the records in the sink, or the
\* returned list.
HandedOver == IF insert_to_database THEN Flatten(sink) ELSE ret.val

\* A finished call for one market over a whole number of days, in which no
\* try block raised and every response held one record.
WholeDaysOneRecordEach ==
    /\ BetweenDates /\ pc = "done" /\ ~fails
    /\ Len(currency_pairs) = 1
    /\ start_date < end_date
    /\ (end_date - start_date) % Day = 0
    /\ \A b \in 1..Len(got) : Len(got[b].recs) = 1

\* C12: get_trade_history_between_dates and get_chart_data_between_dates,
\* called for one market over exactly N whole days with every fetch and
\* insert succeeding and every response holding one record, make exactly N
\* fetches (every fetch is a completed try block, N distinct windows) and
\* hand over exactly N records, the j-th from the window of the j-th day and
\* tagged with the market.
C12_OneFetchAndRecordPerDay ==
    WholeDaysOneRecordEach =>
        LET N == (end_date - start_date) \div Day
        IN /\ Len(got) = N
           /\ Cardinality(asked) = N
           /\ Len(HandedOver) = N
           /\ \A j \in 1..N :
                  /\ HandedOver[j].market = currency_pairs[1]
                  /\ HandedOver[j].ws = start_date + (j - 1) * Day

C12_Witness ==
    /\ WholeDaysOneRecordEach
    /\ end_date - start_date = 2 * Day
    /\ ~insert_to_database
    /\ Len(ret.val) = 2

\* C14: the ticker poller never ends: whatever the fetch, the tagging or the
\* insert of a cycle raises, main is at the top of its loop or in its sleep,
\* every cycle is followed by the sleep and every sleep by the next cycle.
C14_PollerNeverEnds ==
    /\ [](fn = "main" => poll_pc \in {"idle", "sleeping"})
    /\ (fn = "main" /\ poll_pc = "idle") ~> (poll_pc = "sleeping")
    /\ (fn = "main" /\ poll_pc = "sleeping") ~> (poll_pc = "idle")

C14_Witness ==
    /\ fn = "main" /\ poll_pc = "idle"
    /\ poll_caught = "TypeError"
    /\ ticker_sink # <<>>

\* A pass of the while loop that fetched and whose try block raised: the loop
\* was entered and no response was added to those of completed try blocks.
FailedAttempt ==
    /\ fn \in Functions
    /\ pc = "while" /\ current_date_start < end_date
    /\ got' = got

\* C16: a pass of the while loop whose try block raised (in
\* get_chart_data_between_dates: and that was not the fifth fetch of its
\* window start) leaves the window start as it was and the window end such
\* that the next fetch asks for the same end, and writes nothing to the sink
\* or the accumulated collection.
C16_FailedFetchKeepsWindow ==
    [][(/\ FailedAttempt
        /\ fn = "cdbd" => atempt'[AtemptKey(current_date_start)] # StallLimit)
       => /\ current_date_start' = current_date_start
          /\ Clamp(current_date_end', end_date')
               = Clamp(current_date_end, end_date)
          /\ sink' = sink
          /\ trade_history' = trade_history]_vars

C16_Witness ==
    /\ fn = "cdbd" /\ pc = "while"
    /\ fails /\ tries = 2
    /\ atempt[AtemptKey(current_date_start)] = 2
    /\ current_date_end = end_date
    /\ asked = {<<1, start_date, end_date>>}

\* The fetches made so far for the market of the loop: the sum of atempt.
RECURSIVE SumOver(_, _)
SumOver(a, keys) ==
    IF keys = {} THEN 0
    ELSE LET k == CHOOSE x \in keys : TRUE
         IN a[k] + SumOver(a, keys \ {k})

Fetches == SumOver(atempt, DOMAIN atempt)

\* C17: get_chart_data_between_dates fetches no window start more than five
\* times, makes at most 5 * ceil((end_date - start_date) / 1 day) fetches for
\* a market, and ends, whatever succeeds and whatever fails.
C17_ChartSyncTerminates ==
    /\ [](\A k \in DOMAIN atempt : atempt[k] <= StallLimit)
    /\ [](Fetches <= StallLimit * Windows(start_date, end_date))
    /\ <>(pc = "done")

C17_Witness ==
    /\ fn = "cdbd" /\ pc = "done"
    /\ Windows(start_date, end_date) = 2
    /\ Fetches = StallLimit * 2
    /\ wins = {}

\* C18: every window a sync function requests has its start before its end
\* and its end no later than end_date as it stands at the fetch.
C18_FetchedWindowWithinTarget ==
    [][\A w \in asked' \ asked : w[2] < w[3] /\ w[3] <= end_date]_vars

\* A window requested by get_complete_trade_history after a live-tail step,
\* and one requested by get_chart_data_between_dates after a forced advance.
C18_Witness ==
    \/ /\ fn = "cth"
       /\ \E w \in asked : (w[2] - start_date) % Day # 0
    \/ /\ fn = "cdbd" /\ wins = {}
       /\ \E w \in asked : w[2] = start_date + Day

\* A pass of the while loop of get_complete_trade_history whose try block
\* ran to its end, the window it fetched, and the two ways it can move on.
CTH_Success == fn = "cth" /\ pc = "while" /\ Len(got') = Len(got) + 1

FetchedEnd == Clamp(current_date_end, end_date)

TailStep ==
    /\ pc' = "while"
    /\ current_date_start' = FetchedEnd
    /\ now' >= now + SleepTicks
    /\ end_date' = now'
    /\ current_date_end' = now'
    /\ current_date_start' < end_date'

DayStep ==
    /\ current_date_start' = current_date_start + Day
    /\ current_date_end' = FetchedEnd + Day
    /\ end_date' = end_date

C20_WindowsSpanAtMostADay ==
    fn = "cth" => \A w \in asked : w[3] - w[2] <= Day

\* A pass of the while loop of get_chart_data_between_dates whose fetch gave
\* an empty list and whose try block ran to its end.
EmptySuccess ==
    /\ fn = "cdbd" /\ pc = "while"
    /\ Len(got') = Len(got) + 1
    /\ got'[Len(got')].recs = <<>>

\* C21: in get_chart_data_between_dates a fetch that succeeds with zero
\* records, with the empty batch accepted by the sink or accumulated, leaves
\* the window start where it is unless it was the fifth fetch of that start.
C21_EmptyResultRetried ==
    [][EmptySuccess =>
        \/ current_date_start' = current_date_start
        \/ atempt'[AtemptKey(current_date_start)] = StallLimit]_vars

\* C22: the sync functions run one fetch at a time and in order: a step makes
\* at most one request, for the market the for loop is at and the window start
\* the while loop is at; the for loop never goes back to an earlier market,
\* no request is for a market before one already requested, and within a
\* market the window start never decreases.
C22_Sequential ==
    [][/\ mi' >= mi
       /\ Cardinality(asked' \ asked) <= 1
       /\ \A w \in asked' \ asked :
            /\ w[1] = mi /\ w[2] = current_date_start
            /\ \A v \in asked : v[1] <= w[1]
            /\ \A v \in AskedOf(mi) : v[2] <= w[2]
       /\ (pc = "while" /\ pc' = "while") =>
            mi' = mi /\ current_date_start' >= current_date_start]_vars

C22_Witness ==
    /\ Len(currency_pairs) = 2 /\ mi = 2
    /\ Cardinality(AskedOf(1)) = 2
    /\ AskedOf(2) # {}
    /\ fails

\* Everything delivered so far, to the sink or to the accumulated collection.
Stored == Flatten(sink) \o trade_history

\* C23: in get_trade_history_between_dates and get_chart_data_between_dates
\* (markets distinct, insert_many atomic) no window has more than one
\* completed try block, every record of a completed try block is stored
\* exactly once, and nothing else is stored.
C23_DeliveredOnce ==
    BetweenDates =>
        /\ Len(got) = Cardinality(wins)
        /\ \A p, q \in 1..Len(Stored) : p # q => Stored[p] # Stored[q]
        /\ \A b \in 1..Len(got) : \A k \in 1..Len(got[b].recs) :
              \E p \in 1..Len(Stored) :
                  Stored[p] = Tag(got[b].recs[k], currency_pairs[got[b].mi])
        /\ Len(Stored) = Len(Flatten([b \in 1..Len(got) |-> got[b].recs]))

\* A window of get_chart_data_between_dates delivered at its second fetch,
\* after another window was delivered.
C23_Witness ==
    /\ fn = "cdbd" /\ insert_to_database /\ pc = "while"
    /\ Len(Stored) = 2
    /\ \E w \in WinsOf(mi) :
          /\ AtemptKey(w[2]) \in DOMAIN atempt
          /\ atempt[AtemptKey(w[2])] = 2

\* The windows of the loop's market that get_chart_data_between_dates has
\* left by a forced advance: fetched five times, never with a try block that
\* ran to its end.
ForceAdvanced ==
    {w \in AskedOf(mi) \ WinsOf(mi) :
        /\ AtemptKey(w[2]) \in DOMAIN atempt
        /\ atempt[AtemptKey(w[2])] = StallLimit
        /\ \A v \in WinsOf(mi) : v[2] # w[2]}

\* The log records that are neither the record of the call, nor the record
\* of a request, nor the record of a failed attempt.
GapLogs == log \ {CallLog(fn), FetchLog(fn), ErrorLog}

\* C24: once get_chart_data_between_dates has force-advanced a window, its
\* log holds a record of the gap, other than the records of the requests and
\* of the failed attempts.
C24_ForcedAdvanceLogged ==
    (fn = "cdbd" /\ pc = "while" /\ ForceAdvanced # {}) => GapLogs # {}

\* C25: main of poloniex_prediction, once started, never ends: it has
\* neither returned nor been left by an exception.
C25_PredictionPollerNeverEnds ==
    fn = "predict" => pred_pc \notin {"returned", "crashed"}

\* C26: a call get_new_ticker_data(False) is not left by an exception: it
\* returns, and what it returns is a list, whatever the fetch did.
C26_TickerDataAlwaysReturned ==
    (fn = "ticker" /\ ~ticker_insert)
        => /\ poll_pc = "returned"
           /\ tickers_ret.kind = "list"

\* The day starts of [start_date, end_date) that the walk of market i has
\* left behind.
DaysBehind(i) ==
    {s \in start_date..(end_date - 1) :
        /\ (s - start_date) % Day = 0
        /\ i \in Walked \/ (i = mi /\ pc = "for") \/ s < current_date_start}

\* C27: get_chart_data_between_dates leaves no day start below end_date
\* behind without a fetch of it, and one pass of its while loop moves the
\* window start by no more than one day, a success at the last permitted
\* attempt included.
C27_NoWindowSkipped ==
    [][fn = "cdbd" =>
        /\ \A i \in 1..mi' : \A s \in DaysBehind(i)' :
                \E w \in AskedOf(i)' : w[2] = s
        /\ (pc = "while" /\ pc' = "while") =>
                current_date_start' \in
                    {current_date_start, NextDay(current_date_start)}]_vars

C27_Witness ==
    /\ fn = "cdbd" /\ pc = "while"
    /\ current_date_start < end_date
    /\ \E w \in WinsOf(mi) :
        /\ atempt[AtemptKey(w[2])] = StallLimit
        /\ current_date_start = NextDay(w[2])
    /\ \E v \in AskedOf(mi) : v[2] = current_date_start

\* The calls that ended well so far: none raised and no fetch got an error
\* object.
AllListed == \A i \in 1..Len(calls) : calls[i].exc = "none" /\ ~calls[i].error

\* C28: whatever calls came before on the same object, get_all_btc_markets
\* returns the BTC markets of the exchange and get_all_markets returns all
\* its markets.
C28_ListingsKeepTheirMeaning ==
    (fn = "client" /\ AllListed) =>
        \A i \in 1..Len(calls) :
            calls[i].val = IF calls[i].name = "get_all_btc_markets"
                           THEN SelectSeq(exchange, IsBtcMarket)
                           ELSE exchange

\* C29: a listing call that raised leaves self.markets unset, and the call
\* after it fetches again.
C29_FailedListingLeavesCacheUnset ==
    fn = "client" =>
        \A i \in 1..Len(calls) :
            calls[i].exc # "none" =>
                IF i = Len(calls) THEN markets = None
                ELSE calls[i + 1].fetched

\* C30: get_trade_history_between_dates and get_chart_data_between_dates
\* called with start_date >= end_date request no window, insert nothing,
\* raise nothing, and return the empty list when they accumulate.
C30_EmptyRangeDoesNothing ==
    (BetweenDates /\ start_date >= end_date) =>
        /\ asked = {}
        /\ sink = <<>>
        /\ pc \notin {"raised", "raised_call"}
        /\ (pc = "done" /\ ~insert_to_database) =>
                ret = [kind |-> "list", val |-> <<>>]
====
